---- MODULE Spec2Model ----
(***************************************************************************)
(* Model of the RSS watcher of src/rss.py: the FeedStore (a Redis hash     *)
(* url -> last processed timestamp), the watch/unwatch commands, the poll  *)
(* loop with its per-feed pass and process_entry, and the pure function    *)
(* split_message (also src/plugins/web_search.py).                         *)
(***************************************************************************)
EXTENDS Integers, Sequences, FiniteSets, TLC

\* ------------------------------------------------------------------ bounds
MaxTs == 3           \* published timestamps range over 0..MaxTs
MaxEntries == 2      \* entries the watched sites publish in all
MaxChunks == 2       \* chunks one announcement is split into
MaxTextLen == 5      \* length of the texts split_message is applied to
MaxChunkSize == 3    \* chunk_size values split_message is applied with

Urls == {"u1", "u2"}
Times == 0..MaxTs
MaxNow == 2          \* the wall clock ranges over 1..MaxNow (past the epoch)
MaxTgLen == 5        \* announcements of up to MaxTgLen characters for the Telegram text
NoTs == -1           \* 'published_parsed' not in entry
Absent == "nil"      \* the url is no key of the hash rss:feeds
Chars == {"a", " ", "\n"}
Whitespace == {" ", "\n"}

VARIABLES
  \* environment and FeedStore
  store,          \* redis hash rss:feeds: url -> timestamp, or Absent
  doc,            \* the feed document each url serves: entries, newest first
  now,            \* time.time()
  lastCall,       \* the last command a caller made, its result, a call parity
  \* poll_feeds
  pc,             \* position of the poll task
  feeds,          \* items of the dict of get_feeds the for loop has yet to visit
  feed_url,       \* the feed of the current (or last) per-feed pass
  fetchRes,       \* outcome of feedparser.parse in that pass
  last_ts,
  new_last_ts,
  sorted_entries,
  idx,            \* index in sorted_entries of the entry in process_entry
  exc,            \* what the except clause of that pass caught, or "none"
  passLog,        \* entries handed to process_entry in that pass, in order
  \* process_entry
  cur,            \* the locals of the running process_entry call
  sent,           \* per entry: in how many calls a sink accepted it (<= 2)
  \* split_message
  message_content,
  message_parts,
  chunk_size,
  text0,          \* the argument split_message was called with
  splitPc,
  \* the Telegram text of process_entry
  announcement,
  telegram_message,
  tgPc

pollVars == <<store, doc, now, lastCall, pc, feeds, feed_url, fetchRes,
              last_ts, new_last_ts, sorted_entries, idx, exc, passLog, cur, sent>>
splitVars == <<message_content, message_parts, chunk_size, text0, splitPc>>
tgVars == <<announcement, telegram_message, tgPc>>
vars == <<pollVars, splitVars, tgVars>>

\* ------------------------------------------------------------ split_message
\* str.rfind(c, 0, end): the highest 0-based index i < min(end, len) with
\* s[i] = c, or -1.
RECURSIVE RfindFrom(_, _, _)
RfindFrom(s, c, i) ==
  IF i < 0 THEN -1
  ELSE IF s[i + 1] = c THEN i
  ELSE RfindFrom(s, c, i - 1)

Rfind(s, c, end) ==
  RfindFrom(s, c, (IF end < Len(s) THEN end ELSE Len(s)) - 1)

RECURSIVE LStrip(_)
LStrip(s) ==
  IF s # <<>> /\ Head(s) \in Whitespace THEN LStrip(Tail(s)) ELSE s

RECURSIVE RStrip(_)
RStrip(s) ==
  IF s # <<>> /\ s[Len(s)] \in Whitespace
  THEN RStrip(SubSeq(s, 1, Len(s) - 1)) ELSE s

\* mutant of Strip: the remainder is not trimmed
Strip_Nothing(s) == s

\* mutant of Strip: the character at the split point is skipped as a separator
Strip_SkipSeparator(s) == IF s = <<>> THEN s ELSE RStrip(LStrip(Tail(s)))

\* str.strip(): leading and trailing whitespace removed
Strip(s) == RStrip(LStrip(s))

\* mutant of SplitPoint: the hard cut is one character too far
SplitPoint_CutTooFar(s, n) ==
  IF Rfind(s, "\n", n) # -1 THEN Rfind(s, "\n", n)
  ELSE IF Rfind(s, " ", n) # -1 THEN Rfind(s, " ", n)
  ELSE n + 1

\* lines 76-80
SplitPoint(s, n) ==
  IF Rfind(s, "\n", n) # -1 THEN Rfind(s, "\n", n)
  ELSE IF Rfind(s, " ", n) # -1 THEN Rfind(s, " ", n)
  ELSE n

Texts == UNION {[1..k -> Chars] : k \in 0..MaxTextLen}

SplitInit ==
  /\ text0 \in Texts
  /\ chunk_size \in 1..MaxChunkSize
  /\ message_content = text0
  /\ message_parts = <<>>
  /\ splitPc = "while"

\* one iteration of the while loop, lines 75-82
SplitIterate ==
  /\ splitPc = "while"
  /\ Len(message_content) > chunk_size
  /\ message_parts' = Append(message_parts,
        SubSeq(message_content, 1, SplitPoint(message_content, chunk_size)))
  /\ message_content' = Strip(SubSeq(message_content,
        SplitPoint(message_content, chunk_size) + 1, Len(message_content)))
  /\ UNCHANGED <<chunk_size, text0, splitPc>>

\* loop exit, lines 83-84
SplitReturn ==
  /\ splitPc = "while"
  /\ Len(message_content) <= chunk_size
  /\ message_parts' = Append(message_parts, message_content)
  /\ splitPc' = "returned"
  /\ UNCHANGED <<message_content, chunk_size, text0>>


\* -------------------------------------------- the Telegram text, 214-221
TgChars == {"*", "<", ">", "b", "/", "&"}

TgTexts == UNION {[1..k -> TgChars] : k \in 0..MaxTgLen}

\* pat occurs in s at position i
IsAt(s, i, pat) ==
  i >= 1 /\ i + Len(pat) - 1 <= Len(s) /\ SubSeq(s, i, i + Len(pat) - 1) = pat

Stars == <<"*", "*">>

\* r"\*\*(.+?)\*\*" tried at position i: the position of the closing pair of
\* stars, the nearest one that leaves the group a character; 0 for no match
BoldClose(s, i) ==
  LET J == {j \in (i + 3)..Len(s) : IsAt(s, j, Stars)}
  IN IF ~IsAt(s, i, Stars) \/ J = {} THEN 0
     ELSE CHOOSE j \in J : \A k \in J : j <= k

\* line 217: re.sub(r"\*\*(.+?)\*\*", r"<b>\1</b>", s), from position i on:
\* leftmost matches, one after the other
RECURSIVE ReSubBold(_, _)
ReSubBold(s, i) ==
  IF i > Len(s) THEN <<>>
  ELSE IF BoldClose(s, i) # 0
  THEN <<"<", "b", ">">> \o SubSeq(s, i + 2, BoldClose(s, i) - 1)
         \o <<"<", "/", "b", ">">> \o ReSubBold(s, BoldClose(s, i) + 2)
  ELSE <<s[i]>> \o ReSubBold(s, i + 1)

\* line 220: html.escape(s, quote=False)
RECURSIVE HtmlEscape(_)
HtmlEscape(s) ==
  IF s = <<>> THEN <<>>
  ELSE (CASE Head(s) = "&" -> <<"&", "a", "m", "p", ";">>
          [] Head(s) = "<" -> <<"&", "l", "t", ";">>
          [] Head(s) = ">" -> <<"&", "g", "t", ";">>
          [] OTHER -> <<Head(s)>>) \o HtmlEscape(Tail(s))

\* str.replace(pat, new)
RECURSIVE Replace(_, _, _)
Replace(s, pat, new) ==
  IF s = <<>> THEN <<>>
  ELSE IF IsAt(s, 1, pat)
  THEN new \o Replace(SubSeq(s, Len(pat) + 1, Len(s)), pat, new)
  ELSE <<Head(s)>> \o Replace(Tail(s), pat, new)

\* line 221: the escaped forms of the bold tags are turned back into tags
RestoreTags(s) ==
  Replace(Replace(s, <<"&", "l", "t", ";", "b", "&", "g", "t", ";">>,
                  <<"<", "b", ">">>),
          <<"&", "l", "t", ";", "/", "b", "&", "g", "t", ";">>,
          <<"<", "/", "b", ">">>)

\* line 214
TgInit ==
  /\ announcement \in TgTexts
  /\ telegram_message = announcement
  /\ tgPc = "sub"

\* line 217
TgSub ==
  /\ tgPc = "sub"
  /\ telegram_message' = ReSubBold(telegram_message, 1)
  /\ tgPc' = "escape"
  /\ UNCHANGED announcement

\* line 220
TgEscape ==
  /\ tgPc = "escape"
  /\ telegram_message' = HtmlEscape(telegram_message)
  /\ tgPc' = "restore"
  /\ UNCHANGED announcement

\* line 221; the text is the payload of lines 224-229
TgRestore ==
  /\ tgPc = "restore"
  /\ telegram_message' = RestoreTags(telegram_message)
  /\ tgPc' = "payload"
  /\ UNCHANGED announcement

\* --------------------------------------------------------------- FeedStore
\* redis-py stores a float as its repr: 2.0 is kept as the string "2.0"
ReprFloat(t) == ToString(t) \o ".0"

\* float(s) of a stored string
FloatOf(s) == CHOOSE t \in Times : ReprFloat(t) = s

\* add_feed, lines 104-110: the for loop over parsed_feed.entries
RECURSIVE MaxEntryTsFrom(_, _)
MaxEntryTsFrom(entries, acc) ==
  IF entries = <<>> THEN acc
  ELSE MaxEntryTsFrom(Tail(entries),
         IF Head(entries).ts # NoTs /\ Head(entries).ts > acc
         THEN Head(entries).ts ELSE acc)

\* add_feed, lines 104-112: the value add_feed stores for a parsed document
AddLastTs(entries, t) ==
  IF entries # <<>> THEN MaxEntryTsFrom(entries, 0) ELSE t

\* mutant of AddWrites: the watermark is written before the bozo test
AddWrites_BeforeBozoCheck(parsed, storeOk) == storeOk

\* whether add_feed reaches hset at line 115 and hset succeeds: a document
\* with parsed_feed.bozo set returns at line 102, before any store call
AddWrites(parsed, storeOk) == parsed = "ok" /\ storeOk

\* add_feed(feed_url) returning ret, lines 97-120. parsed: feedparser's
\* verdict on the document; storeOk: whether hset succeeds.
add_feed(u, parsed, ret) ==
  \E storeOk \in BOOLEAN :
    /\ ret = (parsed = "ok" /\ storeOk)
    /\ store' = IF AddWrites(parsed, storeOk)
                THEN [store EXCEPT ![u] = ReprFloat(AddLastTs(doc[u], now))]
                ELSE store
    /\ UNCHANGED <<doc, now, pc, feeds, feed_url, fetchRes, last_ts,
                   new_last_ts, sorted_entries, idx, exc, passLog, cur, sent>>
    /\ UNCHANGED <<splitVars, tgVars>>

\* remove_feed(feed_url) returning ret, lines 122-134
remove_feed(u, ret) ==
  \E storeOk \in BOOLEAN :
    /\ ret = (storeOk /\ store[u] # Absent)
    /\ store' = IF storeOk THEN [store EXCEPT ![u] = Absent] ELSE store
    /\ UNCHANGED <<doc, now, pc, feeds, feed_url, fetchRes, last_ts,
                   new_last_ts, sorted_entries, idx, exc, passLog, cur, sent>>
    /\ UNCHANGED <<splitVars, tgVars>>

\* ------------------------------------------------------------- environment
RECURSIVE TotalEntries(_)
TotalEntries(us) ==
  IF us = {} THEN 0
  ELSE LET u == CHOOSE x \in us : TRUE
       IN Len(doc[u]) + TotalEntries(us \ {u})

\* a site publishes an entry, with any date or none; feeds list the newest
\* entry first
Publish(u) ==
  \E t \in Times \cup {NoTs} :
    /\ TotalEntries(Urls) < MaxEntries
    /\ doc' = [doc EXCEPT ![u] = <<[id |-> Len(doc[u]) + 1, ts |-> t]>> \o doc[u]]
    /\ UNCHANGED <<store, now, lastCall, pc, feeds, feed_url, fetchRes,
                   last_ts, new_last_ts, sorted_entries, idx, exc, passLog,
                   cur, sent>>
    /\ UNCHANGED <<splitVars, tgVars>>

\* the wall clock advances
Tick ==
  /\ now < MaxNow
  /\ now' = now + 1
  /\ UNCHANGED <<store, doc, lastCall, pc, feeds, feed_url, fetchRes,
                 last_ts, new_last_ts, sorted_entries, idx, exc, passLog,
                 cur, sent>>
  /\ UNCHANGED <<splitVars, tgVars>>

\* -------------------------------------------------------------- poll_feeds
\* get_feeds, lines 136-143: the items of the hash, none when the store raises
get_feeds(storeOk) ==
  IF storeOk THEN {<<u, store[u]>> : u \in {x \in Urls : store[x] # Absent}}
  ELSE {}

\* line 240
ParseStored(last_ts_str) == IF last_ts_str = "" THEN 0 ELSE FloatOf(last_ts_str)

\* line 251: the sort key
SortKey(e) == IF e.ts # NoTs THEN e.ts ELSE 0

\* sorted() is stable: an element goes after every element whose key is
\* less than or equal to its own
RECURSIVE InsertByKey(_, _)
InsertByKey(es, e) ==
  IF es = <<>> THEN <<e>>
  ELSE IF SortKey(es[Len(es)]) <= SortKey(e) THEN Append(es, e)
  ELSE Append(InsertByKey(SubSeq(es, 1, Len(es) - 1), e), es[Len(es)])

\* mutant of SortEntries: the entries stay in document order
SortEntries_DocumentOrder(es) == es

\* lines 249-252
RECURSIVE SortEntries(_)
SortEntries(es) ==
  IF es = <<>> THEN <<>>
  ELSE InsertByKey(SortEntries(SubSeq(es, 1, Len(es) - 1)), es[Len(es)])

\* mutant of IsNew: an entry at the watermark is taken again
IsNew_AtWatermark(e, wm) == e.ts # NoTs /\ e.ts >= wm

\* lines 254-257: the entry is handed to process_entry
IsNew(e, wm) == e.ts # NoTs /\ e.ts > wm

\* mutant of NextNew: the for loop over the entries is left after the first
\* call of process_entry
NextNew_StopsAfterFirst(es, i, wm) ==
  LET S == {k \in (i + 1)..Len(es) : IsNew(es[k], wm)}
  IN IF i > 0 \/ S = {} THEN 0 ELSE CHOOSE k \in S : \A j \in S : k <= j

\* lines 253-257: the index of the first entry after position i that is
\* handed to process_entry, 0 when the for loop runs out
RECURSIVE NextNew(_, _, _)
NextNew(es, i, wm) ==
  IF i >= Len(es) THEN 0
  ELSE IF IsNew(es[i + 1], wm) THEN i + 1
  ELSE NextNew(es, i + 1, wm)

CurInit ==
  [article |-> "none", summarized |-> FALSE, body |-> "none", nchunks |-> 0,
   chunks_sent |-> 0, discord |-> "none"]

\* mutant of Bozo: the bozo flag is not looked at
Bozo_Ignored(parsed) == FALSE

\* line 243: the parsed document is rejected
Bozo(parsed) == parsed = "bozo"

\* mutant of AfterCaught: the exception leaves poll_feeds and ends the task
AfterCaught_Escapes == "crashed"

\* lines 264-265: where control goes when the try of a feed catches an
\* exception: the handler logs it and the for loop of line 238 goes on
AfterCaught == "for"

\* line 237
GetFeeds ==
  \E storeOk \in BOOLEAN :
    /\ pc = "get_feeds"
    /\ feeds' = get_feeds(storeOk)
    /\ pc' = "for"
    /\ UNCHANGED <<store, doc, now, lastCall, feed_url, fetchRes, last_ts,
                   new_last_ts, sorted_entries, idx, exc, passLog, cur, sent>>
    /\ UNCHANGED <<splitVars, tgVars>>

\* lines 238-252 (and 264-265): the next item of the dict; the document is
\* fetched and parsed, the entries sorted. parsed = "raise": an exception of
\* the fetch or of a timestamp conversion, caught at line 264.
BeginFeed ==
  \E item \in feeds, parsed \in {"ok", "bozo", "raise"} :
    /\ pc = "for"
    /\ feeds' = feeds \ {item}
    /\ feed_url' = item[1]
    /\ fetchRes' = parsed
    /\ passLog' = <<>>
    /\ idx' = 0
    /\ IF parsed # "raise" /\ ~Bozo(parsed)
       THEN /\ last_ts' = ParseStored(item[2])
            /\ new_last_ts' = ParseStored(item[2])
            /\ sorted_entries' = SortEntries(doc[item[1]])
            /\ exc' = "none"
            /\ pc' = "loop"
       ELSE /\ last_ts' = 0
            /\ new_last_ts' = 0
            /\ sorted_entries' = <<>>
            /\ exc' = IF parsed = "raise" THEN "parse" ELSE "none"
            /\ pc' = IF parsed = "raise" THEN AfterCaught ELSE "for"
    /\ UNCHANGED <<store, doc, now, lastCall, cur, sent>>
    /\ UNCHANGED <<splitVars, tgVars>>

\* lines 253-258: the for loop reaches an entry newer than last_ts and calls
\* process_entry
StartEntry ==
  /\ pc = "loop"
  /\ NextNew(sorted_entries, idx, last_ts) # 0
  /\ idx' = NextNew(sorted_entries, idx, last_ts)
  /\ passLog' = Append(passLog, sorted_entries[NextNew(sorted_entries, idx, last_ts)])
  /\ cur' = CurInit
  /\ pc' = "extract"
  /\ UNCHANGED <<store, doc, now, lastCall, feeds, feed_url, fetchRes,
                 last_ts, new_last_ts, sorted_entries, exc, sent>>
  /\ UNCHANGED <<splitVars, tgVars>>

\* mutant of ShouldAdvance: the watermark is written at the end of every pass
ShouldAdvance_Always(new, old) == new >= old

\* lines 262-263: is the watermark written at the end of the pass
ShouldAdvance(new, old) == new > old

\* mutant of AdvanceKey: the watermark goes to another key of the hash
AdvanceKey_OtherFeed(u) == CHOOSE v \in Urls : v # u

\* line 263: the key hset writes, the feed_url of the pass
AdvanceKey(u) == u

\* lines 261-265: the for loop is over; the watermark is written when a newer
\* entry was processed. An exception of hset is caught at line 264. The
\* locals of the pass are dead from here on.
EndFeed ==
  \E storeOk \in BOOLEAN :
    /\ pc = "loop"
    /\ NextNew(sorted_entries, idx, last_ts) = 0
    /\ IF ShouldAdvance(new_last_ts, last_ts)
       THEN IF storeOk
            THEN /\ store' = [store EXCEPT ![AdvanceKey(feed_url)] =
                                                   ReprFloat(new_last_ts)]
                 /\ exc' = "none"
            ELSE /\ store' = store
                 /\ exc' = "store"
       ELSE /\ store' = store
            /\ exc' = "none"
    /\ pc' = IF exc' = "store" THEN AfterCaught ELSE "for"
    /\ sorted_entries' = <<>>
    /\ idx' = 0
    /\ UNCHANGED <<doc, now, lastCall, feeds, feed_url, fetchRes, last_ts,
                   new_last_ts, passLog, cur, sent>>
    /\ UNCHANGED <<splitVars, tgVars>>

\* the for loop of line 238 is over and line 266 is reached
EndCycle ==
  /\ pc = "for"
  /\ feeds = {}
  /\ pc' = "sleep"
  /\ feed_url' = "none"
  /\ fetchRes' = "none"
  /\ exc' = "none"
  /\ last_ts' = 0
  /\ new_last_ts' = 0
  /\ passLog' = <<>>
  /\ UNCHANGED <<store, doc, now, lastCall, feeds, sorted_entries, idx, cur,
                 sent>>
  /\ UNCHANGED <<splitVars, tgVars>>

\* line 266 returns, line 236 loops
WakeUp ==
  /\ pc = "sleep"
  /\ pc' = "get_feeds"
  /\ UNCHANGED <<store, doc, now, lastCall, feeds, feed_url, fetchRes,
                 last_ts, new_last_ts, sorted_entries, idx, exc, passLog, cur,
                 sent>>
  /\ UNCHANGED <<splitVars, tgVars>>

\* ----------------------------------------------------------- process_entry
\* a sink took the announcement of the entry in process_entry: counted once
\* per call
Accepted(first) ==
  IF first
  THEN [sent EXCEPT ![feed_url][sorted_entries[idx].id] =
          IF @ < 2 THEN @ + 1 ELSE 2]
  ELSE sent

\* mutant of NeedsSummary: only None takes the fallback
NeedsSummary_UnlessNone(article) == article # "null"

\* line 158: the summarizer is called for this result of fetch_web_summary
NeedsSummary(article) == article = "text"

\* lines 154-160 (and 182-193 when the fallback is taken): fetch_web_summary
\* returns None (status, exception), an empty text, or the article text
Extract ==
  \E article \in {"null", "empty", "text"}, n \in 1..MaxChunks :
    /\ pc = "extract"
    /\ IF NeedsSummary(article)
       THEN /\ cur' = [cur EXCEPT !.article = article]
            /\ pc' = "summarize"
       ELSE /\ cur' = [cur EXCEPT !.article = article,
                                  !.body = "extract_fallback", !.nchunks = n]
            /\ pc' = "discord"
    /\ UNCHANGED <<store, doc, now, lastCall, feeds, feed_url, fetchRes,
                   last_ts, new_last_ts, sorted_entries, idx, exc, passLog,
                   sent>>
    /\ UNCHANGED <<splitVars, tgVars>>

\* lines 161-193: the summarizer answers, answers nothing, or raises; the
\* announcement is composed and split
Summarize ==
  \E answer \in {"text", "empty", "raise"}, n \in 1..MaxChunks :
    /\ pc = "summarize"
    /\ cur' = [cur EXCEPT !.summarized = TRUE,
                          !.body = CASE answer = "text" -> "summary"
                                     [] answer = "empty" -> "empty_fallback"
                                     [] OTHER -> "error_text",
                          !.nchunks = n]
    /\ pc' = "discord"
    /\ UNCHANGED <<store, doc, now, lastCall, feeds, feed_url, fetchRes,
                   last_ts, new_last_ts, sorted_entries, idx, exc, passLog,
                   sent>>
    /\ UNCHANGED <<splitVars, tgVars>>

\* lines 195-201: get_channel finds no channel
DiscordNoChannel ==
  /\ pc = "discord"
  /\ cur.chunks_sent = 0
  /\ cur' = [cur EXCEPT !.discord = "nochannel"]
  /\ pc' = "telegram"
  /\ UNCHANGED <<store, doc, now, lastCall, feeds, feed_url, fetchRes,
                 last_ts, new_last_ts, sorted_entries, idx, exc, passLog, sent>>
  /\ UNCHANGED <<splitVars, tgVars>>

\* mutant of AfterDiscordError: the exception leaves process_entry and is
\* caught at line 264
AfterDiscordError_Propagates == "for"

\* mutant of AfterDiscordError: the exception is caught inside the for loop
\* over the chunks, which goes on
AfterDiscordError_NextChunk == "discord"

\* lines 202-203: where control goes when channel.send raises
AfterDiscordError == "telegram"

\* lines 198-203: one channel.send of the for loop over chunks
DiscordSend ==
  \E ok \in BOOLEAN :
    /\ pc = "discord"
    /\ IF ok
       THEN /\ cur' = [cur EXCEPT !.chunks_sent = @ + 1,
                                  !.discord = IF cur.chunks_sent + 1 = cur.nchunks
                                              THEN "ok" ELSE "none"]
            /\ sent' = Accepted(cur.chunks_sent = 0)
            /\ pc' = IF cur.chunks_sent + 1 = cur.nchunks THEN "telegram" ELSE "discord"
            /\ exc' = exc
       ELSE /\ cur' = [cur EXCEPT !.discord = "fail"]
            /\ sent' = sent
            /\ pc' = AfterDiscordError
            /\ exc' = IF AfterDiscordError = "for" THEN "sink" ELSE exc
    /\ UNCHANGED <<store, doc, now, lastCall, feeds, feed_url, fetchRes,
                   last_ts, new_last_ts, sorted_entries, idx, passLog>>
    /\ UNCHANGED <<splitVars, tgVars>>

\* mutant of ReturnToLoop: new_last_ts follows an entry only when the channel
\* took its announcement
ReturnToLoop_OnlyIfDelivered ==
  /\ new_last_ts' = IF cur.discord = "ok" /\ sorted_entries[idx].ts > new_last_ts
                    THEN sorted_entries[idx].ts ELSE new_last_ts
  /\ cur' = CurInit
  /\ pc' = "loop"

\* process_entry returns: lines 259-260 of poll_feeds
ReturnToLoop ==
  /\ new_last_ts' = IF sorted_entries[idx].ts > new_last_ts
                    THEN sorted_entries[idx].ts ELSE new_last_ts
  /\ cur' = CurInit
  /\ pc' = "loop"

\* lines 205-210. cfg: what the plugin settings say; the lookup is outside
\* any try of process_entry, so that an exception of it is caught at line 264.
TelegramLookup ==
  \E cfg \in {"raise", "disabled", "unconfigured", "ready"} :
    /\ pc = "telegram"
    /\ CASE cfg = "raise" -> /\ exc' = "plugin"
                             /\ pc' = AfterCaught
                             /\ cur' = CurInit
                             /\ last_ts' = 0
                             /\ new_last_ts' = 0
                             /\ sorted_entries' = <<>>
                             /\ idx' = 0
                             /\ passLog' = <<>>
         [] cfg = "ready" -> /\ pc' = "post"
                             /\ UNCHANGED <<exc, cur, last_ts, new_last_ts,
                                            sorted_entries, idx, passLog>>
         [] OTHER -> /\ ReturnToLoop
                     /\ UNCHANGED <<exc, last_ts, sorted_entries, idx, passLog>>
    /\ UNCHANGED <<store, doc, now, lastCall, feeds, feed_url, fetchRes, sent>>
    /\ UNCHANGED <<splitVars, tgVars>>

\* lines 214-226: how many chunks of the announcement the text of the one
\* requests.post holds. telegram_message is made from announcement, not from
\* the chunks of line 193: it holds all n of them, and is longer than
\* max_response_length whenever n > 1 (split_message splits only a text
\* longer than chunk_size)
TelegramMessageChunks(n) == n

\* lines 211-232: requests.post returns or raises
TelegramPost ==
  \E ok \in BOOLEAN :
    /\ pc = "post"
    /\ sent' = Accepted(ok /\ cur.chunks_sent = 0)
    /\ ReturnToLoop
    /\ UNCHANGED <<store, doc, now, lastCall, feeds, feed_url, fetchRes,
                   last_ts, sorted_entries, idx, exc, passLog>>
    /\ UNCHANGED <<splitVars, tgVars>>

\* how the call that poll_feeds makes at position p is run: "thread" for a
\* function handed to a worker thread (asyncio.to_thread at line 242,
\* run_in_executor at line 156), "await" for an awaited coroutine (ollama
\* chat at line 168, channel.send at line 199, asyncio.sleep at line 266),
\* "inline" for a synchronous call made by the task itself (hgetall at line
\* 138 from line 237, the plugin settings at lines 206-207, requests.post at
\* line 230, hset at line 263)
CallSite(p) ==
  CASE p = "get_feeds" -> "inline"
    [] p = "for" -> "thread"
    [] p = "loop" -> "inline"
    [] p = "extract" -> "thread"
    [] p = "summarize" -> "await"
    [] p = "discord" -> "await"
    [] p = "telegram" -> "inline"
    [] p = "post" -> "inline"
    [] OTHER -> "await"

\* ---------------------------------------------------------- specifications
PollInit ==
  /\ store = [u \in Urls |-> Absent]
  /\ doc = [u \in Urls |-> <<>>]
  /\ now = 1
  /\ lastCall = [op |-> "none", url |-> "none", parsed |-> "none",
                 ret |-> FALSE, seq |-> 0]
  /\ pc = "get_feeds"
  /\ feeds = {}
  /\ feed_url = "none"
  /\ fetchRes = "none"
  /\ last_ts = 0
  /\ new_last_ts = 0
  /\ sorted_entries = <<>>
  /\ idx = 0
  /\ exc = "none"
  /\ passLog = <<>>
  /\ cur = CurInit
  /\ sent = [u \in Urls |-> [i \in 1..MaxEntries |-> 0]]

SplitIdle ==
  /\ message_content = <<>>
  /\ message_parts = <<>>
  /\ chunk_size = 1
  /\ text0 = <<>>
  /\ splitPc = "idle"

TgIdle ==
  /\ announcement = <<>>
  /\ telegram_message = <<>>
  /\ tgPc = "idle"

Init == PollInit /\ SplitIdle /\ TgIdle

\* the poll task, the watch and unwatch commands and the sites
Next ==
  \/ \E u \in Urls, parsed \in {"ok", "bozo"}, ret \in BOOLEAN :
       add_feed(u, parsed, ret) /\ UNCHANGED lastCall
  \/ \E u \in Urls, ret \in BOOLEAN : remove_feed(u, ret) /\ UNCHANGED lastCall
  \/ \E u \in Urls : Publish(u)
  \/ Tick
  \/ GetFeeds
  \/ BeginFeed
  \/ StartEntry
  \/ Extract
  \/ Summarize
  \/ DiscordNoChannel
  \/ DiscordSend
  \/ TelegramLookup
  \/ TelegramPost
  \/ EndFeed
  \/ EndCycle
  \/ WakeUp

Spec == Init /\ [][Next]_vars

\* the watch and unwatch commands as a caller sees them, the poll task idle
CmdNext ==
  \/ \E u \in Urls, parsed \in {"ok", "bozo"}, ret \in BOOLEAN :
       add_feed(u, parsed, ret)
         /\ lastCall' = [op |-> "add", url |-> u, parsed |-> parsed,
                         ret |-> ret, seq |-> 1 - lastCall.seq]
  \/ \E u \in Urls, ret \in BOOLEAN :
       remove_feed(u, ret)
         /\ lastCall' = [op |-> "remove", url |-> u, parsed |-> "none",
                         ret |-> ret, seq |-> 1 - lastCall.seq]
  \/ \E u \in Urls : Publish(u)
  \/ Tick

CmdSpec == Init /\ [][CmdNext]_vars

\* split_message applied to every text and chunk size within the bounds
SplitNext ==
  \/ SplitIterate /\ UNCHANGED <<pollVars, tgVars>>
  \/ SplitReturn /\ UNCHANGED <<pollVars, tgVars>>

SplitSpecInit == PollInit /\ SplitInit /\ TgIdle

\* the Telegram text made from every announcement within the bounds
TgNext ==
  \/ TgSub /\ UNCHANGED <<pollVars, splitVars>>
  \/ TgEscape /\ UNCHANGED <<pollVars, splitVars>>
  \/ TgRestore /\ UNCHANGED <<pollVars, splitVars>>

TgSpecInit == PollInit /\ SplitIdle /\ TgInit

TelegramSpec == TgSpecInit /\ [][TgNext]_vars

SplitSpec == SplitSpecInit /\ [][SplitNext]_vars

\* split_message as it runs: a call that has started goes on until it
\* returns, nothing suspends the while loop
SplitFairSpec == SplitSpecInit /\ [][SplitNext]_vars /\ WF_vars(SplitNext)

\* a document of n entries as the sites publish it: newest first, any date
\* or none
DocsOf(n) ==
  {es \in [1..n -> [id : 1..MaxEntries, ts : Times \cup {NoTs}]] :
     \A i \in 1..n : es[i].id = n + 1 - i}

\* the poll task starts on any watch list and any documents
LiveInit ==
  /\ store \in [Urls -> {Absent, ReprFloat(0), ReprFloat(1)}]
  /\ doc \in [Urls -> UNION {DocsOf(n) : n \in 0..MaxEntries}]
  /\ TotalEntries(Urls) <= MaxEntries
  /\ now = 1
  /\ lastCall = [op |-> "none", url |-> "none", parsed |-> "none",
                 ret |-> FALSE, seq |-> 0]
  /\ pc = "get_feeds"
  /\ feeds = {}
  /\ feed_url = "none"
  /\ fetchRes = "none"
  /\ last_ts = 0
  /\ new_last_ts = 0
  /\ sorted_entries = <<>>
  /\ idx = 0
  /\ exc = "none"
  /\ passLog = <<>>
  /\ cur = CurInit
  /\ sent = [u \in Urls |-> [i \in 1..MaxEntries |-> 0]]
  /\ SplitIdle
  /\ TgIdle

\* the steps of poll_feeds whose awaited call is given a timeout, or that
\* make no network call: requests.get at lines 47-48 and requests.post at
\* line 230 pass timeout=10
BoundedStep ==
  \/ GetFeeds
  \/ StartEntry
  \/ Extract
  \/ Summarize
  \/ DiscordNoChannel
  \/ DiscordSend
  \/ TelegramLookup
  \/ TelegramPost
  \/ EndFeed
  \/ EndCycle
  \/ WakeUp

\* the poll task alone
LiveNext ==
  \/ BeginFeed
  \/ BoundedStep

\* the poll task when every call it awaits returns or raises: the event
\* loop resumes the task after each
LiveSpec == LiveInit /\ [][LiveNext]_vars /\ WF_vars(LiveNext)

\* the poll task when only the calls that are given a timeout are sure to
\* return: feedparser.parse at line 242 is given none
TimeoutSpec == LiveInit /\ [][LiveNext]_vars /\ WF_vars(BoundedStep)

\* ------------------------------------------------------------------ claims
Watched(u) == store[u] # Absent

Max2(a, b) == IF a > b THEN a ELSE b

RECURSIVE MaxOfSet(_)
MaxOfSet(S) ==
  LET x == CHOOSE y \in S : TRUE
  IN IF S = {x} THEN x ELSE Max2(x, MaxOfSet(S \ {x}))

\* the timestamps an entry list carries
TsOf(entries) == {entries[i].ts : i \in DOMAIN entries} \ {NoTs}

\* C1: the watermark stored for a url never decreases, whatever add_feed
\* calls and poll cycles write it.
C1_WatermarkNeverDecreases ==
  [][\A u \in Urls :
       (Watched(u) /\ store'[u] # Absent)
         => FloatOf(store'[u]) >= FloatOf(store[u])]_vars

\* C2: a successful add_feed(url) stores the greatest published timestamp of
\* the document's entries, or the wall-clock time when no entry carries a
\* timestamp.
C2_AddStoresMaxOrNow ==
  [][\A u \in Urls :
       (lastCall' # lastCall /\ lastCall'.op = "add" /\ lastCall'.url = u
          /\ lastCall'.ret)
         => store'[u] = ReprFloat(IF TsOf(doc[u]) = {} THEN now
                                  ELSE MaxOfSet(TsOf(doc[u])))]_vars

\* C3: no entry at or below the watermark read at cycle start, and no entry
\* without a published timestamp, is handed to process_entry.
C3_OldEntriesNeverProcessed ==
  \A i \in DOMAIN passLog : passLog[i].ts # NoTs /\ passLog[i].ts > last_ts

\* C3 witness: the pass skipped an entry and processed a later one
C3_Witness ==
  /\ pc = "discord"
  /\ Len(passLog) = 1
  /\ idx = 2
  /\ sorted_entries[1].ts # NoTs
  /\ sorted_entries[1].ts <= last_ts

\* C4: the entries of a feed are processed in non-decreasing order of
\* published timestamp, and process_entry is called for an entry only when
\* no call of it is running.
C4_ProcessedInPublishOrder ==
  /\ [](\A i, j \in DOMAIN passLog : i < j => passLog[i].ts <= passLog[j].ts)
  /\ [][Len(passLog') > Len(passLog) => (pc = "loop" /\ cur = CurInit)]_vars

\* C4 witness: two entries processed in the order opposite to the document's
C4_Witness ==
  /\ Len(passLog) = 2
  /\ passLog[1].ts < passLog[2].ts
  /\ passLog[1].id < passLog[2].id
  /\ doc[feed_url][1].id = passLog[2].id

\* the entries of the parsed document that are newer than the watermark read
\* at cycle start
Selected == {i \in DOMAIN sorted_entries :
               sorted_entries[i].ts # NoTs /\ sorted_entries[i].ts > last_ts}

\* C5: a pass that ends without an exception has processed exactly the
\* entries newer than the cycle-start watermark, once each, and leaves the
\* greatest of their timestamps in the store (the store as it was when there
\* are none).
C5_PassAnnouncesNewAndAdvances ==
  [][(pc = "loop" /\ pc' = "for" /\ exc' = "none")
       => /\ {passLog[i] : i \in DOMAIN passLog} = {sorted_entries[i] : i \in Selected}
          /\ Len(passLog) = Cardinality(Selected)
          /\ store'[feed_url] =
               IF Selected = {} THEN store[feed_url]
               ELSE ReprFloat(MaxOfSet({sorted_entries[i].ts : i \in Selected}))]_vars

\* C5 witness: entries at 1 and 2 with watermark 1 gave one announcement, of
\* the entry at 2, and watermark 2
C5_Witness ==
  /\ pc = "for"
  /\ fetchRes = "ok"
  /\ exc = "none"
  /\ last_ts = 1
  /\ TsOf(doc[feed_url]) = {1, 2}
  /\ Len(passLog) = 1
  /\ passLog[1].ts = 2
  /\ store[feed_url] = ReprFloat(2)

\* C6: no entry is accepted by a sink in more than one call of process_entry.
C6_NoEntryAnnouncedTwice ==
  \A u \in Urls : \A i \in 1..MaxEntries : sent[u][i] <= 1

\* C7: once extraction has returned nothing, the summarizer is not called,
\* the body is the extraction fallback, and the call is in its dispatch
\* steps with no exception raised.
C7_ExtractionFallback ==
  cur.article \in {"null", "empty"}
    => /\ ~cur.summarized
       /\ cur.body = "extract_fallback"
       /\ pc \in {"discord", "telegram", "post"}
       /\ exc = "none"

\* C7 witness: the fallback announcement of an empty page went out to the
\* chat channel
C7_Witness ==
  /\ cur.article = "empty"
  /\ cur.discord = "ok"
  /\ cur.chunks_sent = cur.nchunks

\* C8: a feed whose document fails to parse is skipped: nothing is processed
\* or sent, the store is unchanged, nothing is caught, and the poll task goes
\* on with the for loop; each cycle reads every watched url unless the read
\* itself fails.
C8_BozoFeedSkipped ==
  [][/\ (pc = "for" /\ feeds' # feeds /\ fetchRes' = "bozo")
          => (pc' = "for" /\ store' = store /\ sent' = sent /\ passLog' = <<>>
                /\ exc' = "none")
     /\ (pc = "get_feeds" /\ pc' = "for")
          => (feeds' = {} \/ \A u \in Urls : Watched(u) => <<u, store[u]>> \in feeds')]_vars

\* C8 witness: a watched feed with an entry newer than its watermark was
\* skipped
C8_Witness ==
  /\ pc = "for"
  /\ fetchRes = "bozo"
  /\ Watched(feed_url)
  /\ \E t \in TsOf(doc[feed_url]) : t > FloatOf(store[feed_url])
  /\ \A i \in 1..MaxEntries : sent[feed_url][i] = 0

\* C9: a failing send to the chat channel leads to the notifier part of
\* process_entry, a failing or succeeding post to the notifier leads back to
\* the for loop over the entries, and neither is caught as an exception nor
\* drops an entry or a feed of the cycle.
C9_SinkFailureIsolated ==
  [][/\ (cur'.discord = "fail" /\ cur.discord # "fail")
          => (pc' = "telegram" /\ exc' = exc /\ passLog' = passLog
                /\ feeds' = feeds /\ sorted_entries' = sorted_entries)
     /\ (pc = "post" /\ pc' # "post")
          => (pc' = "loop" /\ exc' = exc /\ passLog' = passLog
                /\ feeds' = feeds /\ sorted_entries' = sorted_entries)]_vars

\* C9 witness: the notifier is posted to after the chat channel failed, with
\* another feed still to come in the cycle
C9_Witness ==
  /\ pc = "post"
  /\ cur.discord = "fail"
  /\ feeds # {}

\* C10: every chunk split_message returns is at most chunk_size long, and a
\* text of at most chunk_size characters comes back as its only chunk.
C10_ChunksBounded ==
  /\ \A i \in DOMAIN message_parts : Len(message_parts[i]) <= chunk_size
  /\ (splitPc = "returned" /\ Len(text0) <= chunk_size) => message_parts = <<text0>>

\* C10 witness: a text split at a newline, at a space and by a hard cut
C10_Witness ==
  /\ splitPc = "returned"
  /\ Len(message_parts) >= 3
  /\ \E i \in DOMAIN message_parts : Len(message_parts[i]) = chunk_size
  /\ \E i \in DOMAIN text0 : text0[i] = "\n"


\* the characters of s from position i on are all whitespace
AllWhitespace(s) == \A i \in DOMAIN s : s[i] \in Whitespace

\* text is the chunks of parts in order, with nothing but whitespace left
\* out, and only in front of the second and later chunks
RECURSIVE Reconstructs(_, _)
Reconstructs(text, parts) ==
  IF Len(parts) = 1 THEN text = parts[1]
  ELSE /\ Len(parts[1]) <= Len(text)
       /\ SubSeq(text, 1, Len(parts[1])) = parts[1]
       /\ \E j \in Len(parts[1])..Len(text) :
            /\ AllWhitespace(SubSeq(text, Len(parts[1]) + 1, j))
            /\ Reconstructs(SubSeq(text, j + 1, Len(text)), Tail(parts))

\* C11: the chunks split_message returns are the text in order, with only
\* the whitespace in front of the remainder at each split left out.
C11_ChunksReconstructText ==
  splitPc = "returned" => Reconstructs(text0, message_parts)

NonWhitespace(s) == Cardinality({i \in DOMAIN s : s[i] \notin Whitespace})

\* C12 as stated: a text of length L comes back in at least ceil(L / n)
\* chunks of at most n characters each, whatever its content.
C12_AtLeastCeilChunks ==
  splitPc = "returned"
    => /\ Len(message_parts) * chunk_size >= Len(text0)
       /\ \A i \in DOMAIN message_parts : Len(message_parts[i]) <= chunk_size

\* C12 as amended: a text with K characters that are not whitespace comes
\* back in at least ceil(K / n) chunks of at most n characters each.
C12_AtLeastCeilOfKeptChunks ==
  splitPc = "returned"
    => /\ Len(message_parts) * chunk_size >= NonWhitespace(text0)
       /\ \A i \in DOMAIN message_parts : Len(message_parts[i]) <= chunk_size

\* C12 witness: a text with whitespace came back in three or more chunks,
\* fewer than ceil(L / n)
C12_Witness ==
  /\ splitPc = "returned"
  /\ Len(message_parts) >= 3
  /\ Len(message_parts) * chunk_size < Len(text0)
  /\ NonWhitespace(text0) >= 3

\* C13: add_feed on a document that cannot be parsed returns false and
\* leaves the store as it was; add_feed returns true only when the watermark
\* of its url is in the store.
C13_AddFeedFailsCleanly ==
  [][(lastCall' # lastCall /\ lastCall'.op = "add")
       => /\ lastCall'.parsed = "bozo" => (~lastCall'.ret /\ store' = store)
          /\ lastCall'.ret
               => /\ store'[lastCall'.url]
                       = ReprFloat(AddLastTs(doc[lastCall'.url], now))
                  /\ \A v \in Urls \ {lastCall'.url} : store'[v] = store[v]]_vars

\* C13 witness: add_feed of a watched url returned false on a document that
\* could not be parsed, with another watermark than it would have written
C13_Witness ==
  /\ lastCall.op = "add"
  /\ lastCall.parsed = "bozo"
  /\ ~lastCall.ret
  /\ Watched(lastCall.url)
  /\ store[lastCall.url] # ReprFloat(AddLastTs(doc[lastCall.url], now))

\* C14: the poll loop never stops. A step that catches an exception of a
\* feed or of a sink goes on with the for loop and leaves every other feed
\* of the snapshot to be attempted; the sleep is reached only when no feed
\* of the snapshot is left; the cycle reaches its sleep and a next cycle
\* starts, again and again.
C14_PollLoopNeverStops ==
  /\ [][exc' # "none"
          => /\ pc' = "for"
             /\ \A item \in feeds : item[1] # feed_url' => item \in feeds']_vars
  /\ [](pc = "sleep" => feeds = {})
  /\ []<>(pc = "sleep")
  /\ []<>(pc = "get_feeds")

\* C14 witness: an exception of a feed was caught with another feed of the
\* snapshot still to come
C14_Witness ==
  /\ pc = "for"
  /\ exc \in {"parse", "store", "plugin"}
  /\ feeds # {}

\* C20: no network call of a cycle can stall it: a cycle that has its
\* snapshot always reaches its sleep, with only the calls that are given a
\* timeout sure to return.
C20_CycleNeverStalls == (pc = "for") ~> (pc = "sleep")

\* the variables only the poll task writes: a step that changes them is a
\* step of poll_feeds
PassVars == <<pc, feeds, feed_url, fetchRes, last_ts, new_last_ts,
              sorted_entries, idx, exc, passLog, cur, sent>>

\* C15: the poller's advance is atomic with respect to add_feed: when it
\* writes the watermark of a watched url, the value it writes is greater than
\* the value in the store at that moment.
C15_AdvanceIsAtomic ==
  [][(pc = "loop" /\ pc' = "for" /\ store' # store /\ Watched(feed_url))
       => FloatOf(store'[feed_url]) > FloatOf(store[feed_url])]_vars

\* C16: the poll task writes the store only in the step that ends the pass
\* of a feed, after every selected entry was processed, and the feed has no
\* second pass in the cycle; a step that catches an exception leaves the
\* store as it is, so that, the watermark being the one read at cycle start,
\* every selected entry not yet processed is above the stored watermark.
C16_WatermarkWrittenAtPassEnd ==
  [][/\ (PassVars' # PassVars /\ store' # store)
          => /\ pc = "loop" /\ pc' = "for"
             /\ \A k \in Selected :
                  \E i \in DOMAIN passLog : passLog[i] = sorted_entries[k]
             /\ \A item \in feeds : item[1] # feed_url
     /\ (PassVars' # PassVars /\ exc' # "none")
          => /\ store' = store
             /\ (pc # "for" /\ store[feed_url] = ReprFloat(last_ts))
                  => \A k \in Selected :
                       k > idx => sorted_entries[k].ts > FloatOf(store'[feed_url])]_vars

\* C16 witness: the pass of a watched feed was interrupted by an exception
\* of the plugin lookup, and two entries of the feed are above the stored
\* watermark
C16_Witness ==
  /\ pc = "for"
  /\ exc = "plugin"
  /\ Watched(feed_url)
  /\ Cardinality({i \in DOMAIN doc[feed_url] :
                    /\ doc[feed_url][i].ts # NoTs
                    /\ doc[feed_url][i].ts > FloatOf(store[feed_url])}) >= 2

\* C17: a delivery failure does not affect the watermark. A send that fails
\* leaves new_last_ts and the store alone; process_entry returns with
\* new_last_ts raised to the entry's timestamp whatever the sinks did; and a
\* pass with an entry that no sink took writes the greatest timestamp of the
\* entries it processed, as it does when every send succeeds.
C17_SinkFailureLeavesWatermark ==
  [][/\ (pc = "discord" /\ cur'.discord = "fail")
          => (new_last_ts' = new_last_ts /\ store' = store)
     /\ (pc \in {"telegram", "post"} /\ pc' = "loop")
          => /\ new_last_ts' = Max2(new_last_ts, sorted_entries[idx].ts)
             /\ store' = store
     /\ (pc = "loop" /\ pc' = "for" /\ exc' = "none"
           /\ \E i \in DOMAIN passLog : sent[feed_url][passLog[i].id] = 0)
          => store'[feed_url] = ReprFloat(MaxOfSet(TsOf(passLog)))]_vars

\* C17 witness: a pass ended with the watermark at the timestamp of an
\* entry whose sends had all failed
C17_Witness ==
  /\ pc = "for"
  /\ fetchRes = "ok"
  /\ exc = "none"
  /\ passLog # <<>>
  /\ \E i \in DOMAIN passLog :
       /\ sent[feed_url][passLog[i].id] = 0
       /\ store[feed_url] = ReprFloat(passLog[i].ts)

\* C18: a store failure aborts the cycle: after the watermark write of a
\* feed has failed, the next step of the poll task is the end of the cycle,
\* not the pass of another feed.
C18_StoreFailureAbortsCycle ==
  [][(pc = "for" /\ exc = "store" /\ PassVars' # PassVars) => pc' = "sleep"]_vars

\* C19: every sink is sent the chunks of the announcement: the message handed
\* to the secondary notifier holds one chunk, as each message handed to the
\* channel does.
C19_EverySinkGetsChunks ==
  pc = "post" => TelegramMessageChunks(cur.nchunks) = 1

\* C21: no delivery to a sink is made by the poll task itself: the call it
\* is about to make at the channel send and at the notifier post runs on a
\* worker thread or is awaited, as the feed fetch, the extraction and the
\* summarization are.
C21_BlockingCallsOffTask ==
  pc \in {"for", "extract", "summarize", "discord", "post"}
    => CallSite(pc) # "inline"

\* how many times c occurs in s
RECURSIVE Count(_, _)
Count(s, c) ==
  IF s = <<>> THEN 0
  ELSE (IF Head(s) = c THEN 1 ELSE 0) + Count(Tail(s), c)

\* how many **bold** pairs the announcement holds from position i on
RECURSIVE NumBold(_, _)
NumBold(s, i) ==
  IF i > Len(s) THEN 0
  ELSE IF BoldClose(s, i) # 0 THEN 1 + NumBold(s, BoldClose(s, i) + 2)
  ELSE NumBold(s, i + 1)

\* C22: in the text posted to the notifier the only '<' and '>' are those of
\* the <b> and </b> tags made from the **bold** pairs of the announcement,
\* and every '&' starts one of the entities of an escaped character.
C22_OnlyConvertedTagsUnescaped ==
  tgPc = "payload"
    => /\ Count(telegram_message, "<") = 2 * NumBold(announcement, 1)
       /\ Count(telegram_message, ">") = 2 * NumBold(announcement, 1)
       /\ \A i \in DOMAIN telegram_message :
            telegram_message[i] = "&"
              => \/ IsAt(telegram_message, i, <<"&", "a", "m", "p", ";">>)
                 \/ IsAt(telegram_message, i, <<"&", "l", "t", ";">>)
                 \/ IsAt(telegram_message, i, <<"&", "g", "t", ";">>)

\* C23: a url that is absent from the store stays absent whatever the poll
\* task does: the end-of-pass write of a cycle that read the url before
\* remove_feed does not create the key again.
C23_RemovedFeedStaysRemoved ==
  [][\A u \in Urls :
       (store[u] = Absent /\ PassVars' # PassVars) => store'[u] = Absent]_vars

\* C24: the channel receives a prefix of the chunks in order: a step of the
\* for loop over the chunks either sends the next chunk, the one after those
\* already sent, or fails and leaves the loop; no more chunks are sent than
\* the announcement has, and after a failed send the count of chunks sent to
\* the channel stays as it is until process_entry returns.
C24_ChannelGetsPrefixOfChunks ==
  /\ [](cur.chunks_sent <= cur.nchunks)
  /\ [](cur.discord = "fail" => pc # "discord")
  /\ [][(pc = "discord" /\ PassVars' # PassVars)
          => \/ /\ cur'.chunks_sent = cur.chunks_sent + 1
                /\ cur'.discord # "fail"
                /\ pc' = IF cur'.chunks_sent = cur.nchunks THEN "telegram"
                         ELSE "discord"
             \/ /\ cur'.chunks_sent = cur.chunks_sent
                /\ pc' # "discord"]_vars
  /\ [][(pc \in {"telegram", "post"} /\ PassVars' # PassVars)
          => (cur'.chunks_sent = cur.chunks_sent \/ cur' = CurInit)]_vars

\* C24 witness: the send of the second of two chunks failed after the first
\* was sent
C24_Witness ==
  /\ pc = "telegram"
  /\ cur.discord = "fail"
  /\ cur.nchunks = 2
  /\ cur.chunks_sent = 1

\* C26: a step of the poll task that changes the store changes only the key
\* of the feed whose pass it belongs to.
C26_PassWritesOnlyOwnKey ==
  [][(PassVars' # PassVars /\ store' # store)
       => /\ feed_url' = feed_url
          /\ \A v \in Urls \ {feed_url} : store'[v] = store[v]]_vars

\* C26 witness: a pass wrote the watermark of its feed with another feed
\* watched at another watermark
C26_Witness ==
  /\ pc = "for"
  /\ fetchRes = "ok"
  /\ exc = "none"
  /\ passLog # <<>>
  /\ store[feed_url] = ReprFloat(new_last_ts)
  /\ \E v \in Urls \ {feed_url} : Watched(v) /\ store[v] # store[feed_url]

\* C25: split_message terminates: every iteration of the while loop leaves
\* a strictly shorter remainder, and every call returns.
C25_SplitTerminates ==
  /\ [][(splitPc = "while" /\ splitPc' = "while"
           /\ message_parts' # message_parts)
          => Len(message_content') < Len(message_content)]_vars
  /\ <>(splitPc = "returned")

\* C25 witness: a call whose first split point was index 0 (the text starts
\* with a newline or a space) emitted an empty chunk and returned
C25_Witness ==
  /\ splitPc = "returned"
  /\ Len(message_parts) >= 2
  /\ message_parts[1] = <<>>
  /\ Len(text0) > chunk_size

====
